---------------------------- MODULE Spec2Model ----------------------------
(***************************************************************************)
(* Model of pi-compress (src/src/main.rs): the hex codec, the match        *)
(* finder, the greedy compressor and the decompressor.                     *)
(*                                                                         *)
(* Rust strings (&str) and byte slices are sequences of byte values        *)
(* 0..255; a &str is a sequence that is valid UTF-8.  A Rust range a..b    *)
(* (0-based, half open) of a sequence s is Slice(s, a, b).                 *)
(***************************************************************************)
EXTENDS Integers, Sequences, FiniteSets, TLC

VARIABLES
    pi,              \* the dictionary handed to compress / decompress
    input_bytes,     \* compress: text.as_bytes()
    current_pos,     \* compress: cursor into input_bytes
    results,         \* compress: the Vec<MatchResult> built so far
    emitted_at,      \* history: the value of current_pos when results[k] was pushed
    matches,         \* decompress: the segment slice it is given
    didx,            \* decompress: 1-based index of the next segment of the for loop
    result_bytes,    \* decompress: the accumulated bytes
    outcome,         \* decompress: "Running", "Ok", an error kind, or "Panic"
    hex_str,         \* hex_string_to_bytes: its argument
    hex_result,      \* hex_string_to_bytes: its return value
    overflow_checks, \* build profile: TRUE = debug (overflow panics), FALSE = release (wraps)
    pc               \* position of the program

vars == <<pi, input_bytes, current_pos, results, emitted_at, matches, didx,
          result_bytes, outcome, hex_str, hex_result, overflow_checks, pc>>

----------------------------------------------------------------------------
(* Bounds of the model *)

\* Longest dictionary (characters).
MaxDictLen == 6
\* Longest input text (bytes).
MaxInputLen == 3
\* Longest argument of hex_string_to_bytes (bytes).
MaxHexLen == 4
\* Longest hand-built segment sequence.
MaxSegs == 2
\* Width of usize in the model; the arithmetic is modulo 2^UsizeBits.
UsizeBits == 8

\* Decimal digits the bounded dictionaries are drawn from: '1', '3'.
DictDigits == {49, 51}
\* Bytes the bounded input texts are drawn from: 0x13, '1', 'j', and the two
\* bytes of U+00E9 (0xC3 0xA9).
InputBytes == {19, 49, 106, 195, 169}
\* Bytes the hex codec's argument is drawn from: '+', '-', '1', 'F', 'a', 'g',
\* and the two bytes of U+00E9.
HexStrBytes == {43, 45, 49, 70, 97, 103, 195, 169}

SeqsUpTo(S, n) == UNION {[1..k -> S] : k \in 0..n}

UsizeModulus == 2 ^ UsizeBits
UsizeMax == UsizeModulus - 1

----------------------------------------------------------------------------
(* Helpers for Rust's slices and strings *)

Slice(s, a, b) == SubSeq(s, a + 1, b)

\* The element of a one-element set.  TheOne({body : x \in {e}}) is
\* LET x == e IN body with e evaluated once, before body.
TheOne(S) == CHOOSE r \in S : TRUE

Min(S) == CHOOSE x \in S : \A y \in S : x <= y
Max(S) == CHOOSE x \in S : \A y \in S : x >= y

\* A UTF-8 continuation byte 0x80..0xBF.
IsCont(b) == b >= 128 /\ b <= 191

\* str::is_char_boundary
IsCharBoundary(s, idx) ==
    \/ idx = 0
    \/ idx = Len(s)
    \/ (idx < Len(s) /\ ~IsCont(s[idx + 1]))

\* core::str::from_utf8's validation, from byte i (1-based) on.
RECURSIVE ValidUtf8From(_, _)
ValidUtf8From(b, i) ==
    IF i > Len(b) THEN TRUE
    ELSE LET b1 == b[i]
             n  == Len(b)
             at(k) == b[i + k]
         IN  IF b1 < 128 THEN ValidUtf8From(b, i + 1)
             ELSE IF b1 >= 194 /\ b1 <= 223
                  THEN i + 1 <= n /\ IsCont(at(1)) /\ ValidUtf8From(b, i + 2)
             ELSE IF b1 >= 224 /\ b1 <= 239
                  THEN /\ i + 2 <= n
                       /\ IF b1 = 224 THEN at(1) >= 160 /\ at(1) <= 191
                          ELSE IF b1 = 237 THEN at(1) >= 128 /\ at(1) <= 159
                          ELSE IsCont(at(1))
                       /\ IsCont(at(2))
                       /\ ValidUtf8From(b, i + 3)
             ELSE IF b1 >= 240 /\ b1 <= 244
                  THEN /\ i + 3 <= n
                       /\ IF b1 = 240 THEN at(1) >= 144 /\ at(1) <= 191
                          ELSE IF b1 = 244 THEN at(1) >= 128 /\ at(1) <= 143
                          ELSE IsCont(at(1))
                       /\ IsCont(at(2))
                       /\ IsCont(at(3))
                       /\ ValidUtf8From(b, i + 4)
             ELSE FALSE

ValidUtf8(b) == ValidUtf8From(b, 1)

----------------------------------------------------------------------------
(* Hex codec *)

\* One lowercase hex digit of format!("{:02x}", b), as its ASCII code.
HexDigitChar(n) == IF n < 10 THEN 48 + n ELSE 87 + n

RECURSIVE bytes_to_hex_string(_)
bytes_to_hex_string(bytes) ==
    IF bytes = <<>> THEN <<>>
    ELSE <<HexDigitChar(Head(bytes) \div 16), HexDigitChar(Head(bytes) % 16)>>
         \o bytes_to_hex_string(Tail(bytes))

\* char::to_digit(16) on one byte of the string; -1 is None.
ToDigit16(c) ==
    IF c >= 48 /\ c <= 57 THEN c - 48
    ELSE IF c >= 97 /\ c <= 102 THEN c - 87
    ELSE IF c >= 65 /\ c <= 70 THEN c - 55
    ELSE -1

RECURSIVE RadixDigits(_, _)
RadixDigits(digits, acc) ==
    IF digits = <<>> THEN acc
    ELSE LET x == ToDigit16(Head(digits))
         IN  IF x < 0 THEN -1
             ELSE IF acc * 16 + x > 255 THEN -1
             ELSE RadixDigits(Tail(digits), acc * 16 + x)

\* u8::from_str_radix(src, 16): the byte, or -1 for Err.  An unsigned type
\* accepts one leading '+' and no '-'.
FromStrRadix16(src) ==
    IF src = <<>> THEN -1
    ELSE IF Len(src) = 1 /\ (src[1] = 43 \/ src[1] = 45) THEN -1
    ELSE IF src[1] = 43 THEN RadixDigits(Tail(src), 0)
    ELSE RadixDigits(src, 0)

HexOk(bytes) == [kind |-> "Ok", bytes |-> bytes]
HexErr(kind) == [kind |-> kind, bytes |-> <<>>]

\* The for loop of hex_string_to_bytes from offset i (0-based) on.
RECURSIVE HexPairs(_, _, _)
HexPairs(hex, i, bytes) ==
    IF i >= Len(hex) THEN HexOk(bytes)
    ELSE IF ~(IsCharBoundary(hex, i) /\ IsCharBoundary(hex, i + 2))
         THEN HexErr("Panic")
    ELSE LET byte == FromStrRadix16(Slice(hex, i, i + 2))
         IN  IF byte < 0 THEN HexErr("ErrInvalidHex")
             ELSE HexPairs(hex, i + 2, Append(bytes, byte))

hex_string_to_bytes(hex) ==
    IF Len(hex) % 2 # 0 THEN HexErr("ErrOddLength")
    ELSE HexPairs(hex, 0, <<>>)

----------------------------------------------------------------------------
(* Match finder *)

None == [some |-> FALSE, index |-> 0, hex_len |-> 0]
Some(index, hex_len) == [some |-> TRUE, index |-> index, hex_len |-> hex_len]

\* The start offsets (0-based) at which needle occurs in hay.
Occurrences(hay, needle) ==
    {i \in 0..(Len(hay) - Len(needle)) : Slice(hay, i, i + Len(needle)) = needle}

\* A search from the right end (str::rfind).
RightmostFind(hay, needle) ==
    TheOne({IF occ = {} THEN -1 ELSE Max(occ) : occ \in {Occurrences(hay, needle)}})

\* str::find: the first occurrence, or -1 for None.
Find(hay, needle) ==
    TheOne({IF occ = {} THEN -1 ELSE Min(occ) : occ \in {Occurrences(hay, needle)}})

\* The match reported with the byte length in place of the hex length.
find_and_verify_match_byte_len(slice_to_try, dict) ==
    LET hex_str_to_find == bytes_to_hex_string(slice_to_try)
        index == Find(dict, hex_str_to_find)
    IN  IF index < 0 THEN None ELSE Some(index, Len(slice_to_try))

find_and_verify_match(slice_to_try, dict) ==
    TheOne({
      LET hex_len == Len(hex_str_to_find)
      IN  TheOne({
            IF index < 0 THEN None
            ELSE IF ~(index + hex_len <= Len(dict)) THEN None
            ELSE TheOne({
                   IF decoded.kind = "Ok" /\ decoded.bytes = slice_to_try
                   THEN Some(index, hex_len)
                   ELSE None
                   : decoded \in {hex_string_to_bytes(Slice(dict, index, index + hex_len))} })
            : index \in {Find(dict, hex_str_to_find)} })
      : hex_str_to_find \in {bytes_to_hex_string(slice_to_try)} })

----------------------------------------------------------------------------
(* Compressor *)

Found(index, hex_len, original_byte_len) ==
    [tag |-> "Found", index |-> index, hex_len |-> hex_len,
     original_byte_len |-> original_byte_len]
NotFound(data) == [tag |-> "NotFound", data |-> data]

NoMatch == [found |-> FALSE, index |-> 0, hex_len |-> 0, len |-> 0]

\* The inner for loop of compress: len from the given length down to 1, the
\* first verified match wins.
RECURSIVE InnerLoop(_, _, _, _)
InnerLoop(bytes, pos, len, dict) ==
    IF len < 1 THEN NoMatch
    ELSE TheOne({
           IF m.some
           THEN [found |-> TRUE, index |-> m.index, hex_len |-> m.hex_len, len |-> len]
           ELSE InnerLoop(bytes, pos, len - 1, dict)
           : m \in {find_and_verify_match(Slice(bytes, pos, pos + len), dict)} })

\* The range 1..len-pos taken without its upper end.
LongestMatchExclusive(bytes, pos, dict) ==
    InnerLoop(bytes, pos, Len(bytes) - pos - 1, dict)

\* for len in (1..=input_bytes.len() - current_pos).rev()
LongestMatch(bytes, pos, dict) == InnerLoop(bytes, pos, Len(bytes) - pos, dict)

\* The segment pushed with the byte length stored as the hex length.
FoundSegmentHexLen(index, hex_len, len) == Found(index, hex_len, hex_len)

\* results.push(MatchResult::Found { index, hex_len, original_byte_len: len })
FoundSegment(index, hex_len, len) == Found(index, hex_len, len)

\* The literal taken one byte early (the byte before the cursor, or the first).
RawSegmentPrev(bytes, pos) == NotFound(<<bytes[IF pos = 0 THEN 1 ELSE pos]>>)

\* results.push(MatchResult::NotFound { data: vec![input_bytes[current_pos]] })
RawSegment(bytes, pos) == NotFound(<<bytes[pos + 1]>>)

\* The literal branch without its cursor advance.
RawAdvanceNone(pos) == pos

\* current_pos += 1 of the literal branch
RawAdvance(pos) == pos + 1

\* The cursor advanced by one byte whatever the match length.
MatchAdvanceOne(pos, len) == pos + 1

\* current_pos += len of the match branch
MatchAdvance(pos, len) == pos + len

\* One iteration of the outer while loop: the segment pushed and the new cursor.
CompressIteration(bytes, pos, dict) ==
    TheOne({
      IF m.found
      THEN [seg |-> FoundSegment(m.index, m.hex_len, m.len),
            current_pos |-> MatchAdvance(pos, m.len)]
      ELSE [seg |-> RawSegment(bytes, pos),
            current_pos |-> RawAdvance(pos)]
      : m \in {LongestMatch(bytes, pos, dict)} })

----------------------------------------------------------------------------
(* Decompressor *)

\* usize addition: a debug build panics on overflow (sum -1), a release
\* build wraps.
UsizeAdd(a, b, checks) ==
    IF a + b > UsizeMax
    THEN (IF checks THEN -1 ELSE (a + b) % UsizeModulus)
    ELSE a + b

\* &s[a..b] is defined when a <= b <= len and both are char boundaries;
\* otherwise the slice expression panics.
SliceOk(s, a, b) ==
    a <= b /\ b <= Len(s) /\ IsCharBoundary(s, a) /\ IsCharBoundary(s, b)

Step(kind, bytes) == [outcome |-> kind, result_bytes |-> bytes]

\* The literal branch appending nothing.
ExtendRawDropped(acc, data) == acc

\* result_bytes.extend(data)
ExtendRaw(acc, data) == acc \o data

\* The body of decompress's for loop for one segment: "Running" to go on,
\* or how the call ends.
DecompressSegment(seg, dict, acc, checks) ==
    IF seg.tag = "NotFound" THEN Step("Running", ExtendRaw(acc, seg.data))
    ELSE LET end == UsizeAdd(seg.index, seg.hex_len, checks)
         IN  IF end < 0 THEN Step("Panic", acc)
             ELSE IF end > Len(dict) THEN Step("ErrOutOfBounds", acc)
             ELSE IF ~SliceOk(dict, seg.index, end) THEN Step("Panic", acc)
             ELSE TheOne({
                    IF decoded.kind = "Panic" THEN Step("Panic", acc)
                    ELSE IF decoded.kind # "Ok" THEN Step("ErrInvalidHex", acc)
                    ELSE IF Len(decoded.bytes) = seg.original_byte_len
                         THEN Step("Running", acc \o decoded.bytes)
                         ELSE Step("ErrLengthMismatch", acc)
                    : decoded \in {hex_string_to_bytes(Slice(dict, seg.index, end))} })

\* String::from_utf8(result_bytes).map_err(..)
FromUtf8(bytes) == IF ValidUtf8(bytes) THEN "Ok" ELSE "ErrUtf8"

----------------------------------------------------------------------------
(* Inputs *)

Dicts == SeqsUpTo(DictDigits, MaxDictLen)
Texts == {b \in SeqsUpTo(InputBytes, MaxInputLen) : ValidUtf8(b)}
HexStrs == {h \in SeqsUpTo(HexStrBytes, MaxHexLen) : ValidUtf8(h)}

\* Dictionaries of the hand-built decompress calls.
DecodeDicts == {<<>>, <<51, 49>>, <<51, 49, 52, 49>>}

\* Hand-built segments against a dictionary: match positions at the start, in
\* the middle, at the last character and at the largest usize.
HandBuilt(dict) ==
    {Found(i, h, n) :
        i \in {0, 2, IF Len(dict) = 0 THEN 0 ELSE Len(dict) - 1, UsizeMax},
        h \in {1, 2, 4, UsizeMax}, n \in {1, 2}}
    \cup {NotFound(d) : d \in {<<>>, <<49>>, <<255>>, <<195>>, <<169>>, <<195, 169>>}}

----------------------------------------------------------------------------
(* The program: main runs compress, then decompress on its result *)

Idle ==
    /\ hex_str = <<>>
    /\ hex_result = HexErr("None")

Init ==
    /\ pi = <<>>
    /\ input_bytes = <<>>
    /\ overflow_checks = FALSE
    /\ current_pos = 0
    /\ results = <<>>
    /\ emitted_at = <<>>
    /\ matches = <<>>
    /\ didx = 1
    /\ result_bytes = <<>>
    /\ outcome = "Running"
    /\ Idle
    /\ pc = "main"

\* main: the dictionary is loaded, a line of text is read, compress is called.
Main ==
    /\ pc = "main"
    /\ pi' \in Dicts
    /\ input_bytes' \in Texts
    /\ overflow_checks' \in BOOLEAN
    /\ pc' = "compress"
    /\ UNCHANGED <<current_pos, results, emitted_at, matches, didx,
                   result_bytes, outcome, hex_str, hex_result>>

\* while current_pos < input_bytes.len() { .. }: one iteration
CompressStep ==
    /\ pc = "compress"
    /\ current_pos < Len(input_bytes)
    /\ \E it \in {CompressIteration(input_bytes, current_pos, pi)} :
           /\ results' = Append(results, it.seg)
           /\ emitted_at' = Append(emitted_at, current_pos)
           /\ current_pos' = it.current_pos
    /\ UNCHANGED <<pi, input_bytes, matches, didx, result_bytes, outcome,
                   hex_str, hex_result, overflow_checks, pc>>

\* The loop exits, compress returns results, and main hands them to decompress.
CompressReturn ==
    /\ pc = "compress"
    /\ ~(current_pos < Len(input_bytes))
    /\ matches' = results
    /\ pc' = "decompress"
    /\ UNCHANGED <<pi, input_bytes, current_pos, results, emitted_at, didx,
                   result_bytes, outcome, hex_str, hex_result, overflow_checks>>

\* for result in matches { .. }: one segment
DecompressStep ==
    /\ pc = "decompress"
    /\ didx <= Len(matches)
    /\ \E s \in {DecompressSegment(matches[didx], pi, result_bytes, overflow_checks)} :
           /\ result_bytes' = s.result_bytes
           /\ outcome' = s.outcome
           /\ IF s.outcome = "Running"
              THEN didx' = didx + 1 /\ pc' = pc
              ELSE didx' = didx /\ pc' = "done"
    /\ UNCHANGED <<pi, input_bytes, current_pos, results, emitted_at, matches,
                   hex_str, hex_result, overflow_checks>>

\* The loop is over: the bytes are turned into a String.
DecompressReturn ==
    /\ pc = "decompress"
    /\ didx > Len(matches)
    /\ outcome' = FromUtf8(result_bytes)
    /\ pc' = "done"
    /\ UNCHANGED <<pi, input_bytes, current_pos, results, emitted_at, matches,
                   didx, result_bytes, hex_str, hex_result, overflow_checks>>

Next == Main \/ CompressStep \/ CompressReturn \/ DecompressStep \/ DecompressReturn

Spec == Init /\ [][Next]_vars

\* The program is sequential and runs to completion: every enabled step is taken.
FairSpec == Spec /\ WF_vars(Next)

----------------------------------------------------------------------------
(* decompress called on hand-built segment sequences *)

InitDecode ==
    /\ pi \in DecodeDicts
    /\ matches \in SeqsUpTo(HandBuilt(pi), MaxSegs)
    /\ overflow_checks \in BOOLEAN
    /\ input_bytes = <<>>
    /\ current_pos = 0
    /\ results = <<>>
    /\ emitted_at = <<>>
    /\ didx = 1
    /\ result_bytes = <<>>
    /\ outcome = "Running"
    /\ Idle
    /\ pc = "decompress"

NextDecode == DecompressStep \/ DecompressReturn

SpecDecode == InitDecode /\ [][NextDecode]_vars

----------------------------------------------------------------------------
(* hex_string_to_bytes called on arbitrary strings *)

InitHex ==
    /\ hex_str \in HexStrs
    /\ hex_result = HexErr("None")
    /\ pi = <<>>
    /\ input_bytes = <<>>
    /\ overflow_checks = FALSE
    /\ current_pos = 0
    /\ results = <<>>
    /\ emitted_at = <<>>
    /\ matches = <<>>
    /\ didx = 1
    /\ result_bytes = <<>>
    /\ outcome = "Running"
    /\ pc = "hex"

HexDecode ==
    /\ pc = "hex"
    /\ hex_result' = hex_string_to_bytes(hex_str)
    /\ pc' = "done"
    /\ UNCHANGED <<pi, input_bytes, current_pos, results, emitted_at, matches,
                   didx, result_bytes, outcome, hex_str, overflow_checks>>

NextHex == HexDecode

SpecHex == InitHex /\ [][NextHex]_vars

----------------------------------------------------------------------------
(* Properties *)

\* The input bytes a segment stands for.
Covered(seg) == IF seg.tag = "Found" THEN seg.original_byte_len ELSE Len(seg.data)

RECURSIVE SumCovered(_)
SumCovered(segs) == IF segs = <<>> THEN 0 ELSE Covered(Head(segs)) + SumCovered(Tail(segs))

RECURSIVE RawConcat(_)
RawConcat(segs) == IF segs = <<>> THEN <<>> ELSE Head(segs).data \o RawConcat(Tail(segs))

\* The input bytes results[k] was emitted for: from its offset, of length len.
InputRun(k, len) == Slice(input_bytes, emitted_at[k], emitted_at[k] + len)

\* Whether the hex form of the len bytes at input offset p occurs in the dictionary.
HexFormOccurs(p, len) ==
    Occurrences(pi, bytes_to_hex_string(Slice(input_bytes, p, p + len))) # {}

FoundIn(segs) == {k \in 1..Len(segs) : segs[k].tag = "Found"}
NotFoundIn(segs) == {k \in 1..Len(segs) : segs[k].tag = "NotFound"}

\* C1: round trip.  When compress followed by decompress against the same
\* dictionary completes without error, the decompressed bytes equal the input.
C1_RoundTrip ==
    (pc = "done" /\ outcome = "Ok") => result_bytes = input_bytes

C1_Witness ==
    /\ pc = "done" /\ outcome = "Ok"
    /\ FoundIn(matches) # {} /\ NotFoundIn(matches) # {}
    /\ result_bytes = input_bytes

\* C2: decompress on compress's own output never ends on the out-of-bounds
\* path nor on the length-mismatch path.
C2_NoIntegrityFailure ==
    outcome \notin {"ErrOutOfBounds", "ErrLengthMismatch"}

C2_Witness ==
    /\ pc = "done"
    /\ \E k \in FoundIn(matches) : matches[k].original_byte_len >= 2
    /\ outcome = "Ok"

\* C3: greedy longest match.  A Match emitted at offset p with length L means
\* no longer run from p has its hex form in the dictionary; a Raw emitted at p
\* means no run from p of any length, 1 included, has.
C3_GreedyLongest ==
    \A k \in 1..Len(results) :
        LET p == emitted_at[k]
            least == IF results[k].tag = "Found"
                     THEN results[k].original_byte_len + 1
                     ELSE 1
        IN  \A len \in least..(Len(input_bytes) - p) : ~HexFormOccurs(p, len)

C3_Witness ==
    /\ \E k \in FoundIn(results) :
          /\ results[k].original_byte_len >= 2
          /\ emitted_at[k] + results[k].original_byte_len < Len(input_bytes)
    /\ NotFoundIn(results) # {}

\* C4: leftmost tie-break.  find_and_verify_match on any run of the input
\* whose key occurs in the dictionary reports the smallest start position,
\* and no Match segment carries a position with the same key occurring earlier.
C4_LeftmostTieBreak ==
    /\ \A p \in 0..(Len(input_bytes) - 1) : \A len \in 1..(Len(input_bytes) - p) :
          LET run == Slice(input_bytes, p, p + len)
              occ == Occurrences(pi, bytes_to_hex_string(run))
              m == find_and_verify_match(run, pi)
          IN  occ # {} => (m.some /\ \A q \in occ : m.index <= q)
    /\ \A k \in FoundIn(results) :
          LET key == bytes_to_hex_string(InputRun(k, results[k].original_byte_len))
          IN  \A q \in Occurrences(pi, key) : results[k].index <= q

C4_Witness ==
    \E k \in FoundIn(results) :
        LET key == bytes_to_hex_string(InputRun(k, results[k].original_byte_len))
        IN  /\ Cardinality(Occurrences(pi, key)) >= 2
            /\ results[k].index > 0

\* C5 (as claimed): a Match segment whose position + hexLength exceeds the
\* dictionary length ends decompress with the out-of-bounds error, for every
\* position and hexLength of the machine word.
C5_OutOfBoundsIsAnError ==
    ( /\ pc = "done"
      /\ didx <= Len(matches)
      /\ matches[didx].tag = "Found"
      /\ matches[didx].index + matches[didx].hex_len > Len(pi) )
    => outcome = "ErrOutOfBounds"

\* What the claim gives for hex_string_to_bytes on a string.
HexContract(hex) ==
    IF Len(hex) % 2 # 0 THEN HexErr("ErrOddLength")
    ELSE IF \E i \in 1..Len(hex) : ToDigit16(hex[i]) < 0 THEN HexErr("ErrInvalidHex")
    ELSE HexOk([i \in 1..(Len(hex) \div 2) |->
                   16 * ToDigit16(hex[2 * i - 1]) + ToDigit16(hex[2 * i])])

\* C6 (as claimed): hex_string_to_bytes returns the odd-length error for an
\* odd length, else the invalid-digit error if any character is not a hex
\* digit, else the bytes of the character pairs.
C6_HexErrorContract ==
    pc = "done" => hex_result = HexContract(hex_str)

AllRaw == \A k \in 1..Len(matches) : matches[k].tag = "NotFound"

\* C7 (as claimed): decompress on Raw segments only cannot fail and returns
\* the concatenation of the stored bytes.
C7_RawNeverFails ==
    (pc = "done" /\ AllRaw) => (outcome = "Ok" /\ result_bytes = RawConcat(matches))

\* C7 (amended): decompress on Raw segments only never takes a decode error
\* path; it accumulates exactly the concatenation of the stored bytes, returns
\* it when it is valid UTF-8 and returns the UTF-8 error otherwise.
C7_RawFailsOnlyOnUtf8 ==
    AllRaw =>
        /\ outcome \in {"Running", "Ok", "ErrUtf8"}
        /\ pc = "done" =>
              /\ result_bytes = RawConcat(matches)
              /\ outcome = "Ok" <=> ValidUtf8(RawConcat(matches))

C7_Witness ==
    /\ pc = "done" /\ AllRaw /\ outcome = "Ok"
    /\ Len(matches) = 2
    /\ ~ValidUtf8(matches[1].data) /\ ~ValidUtf8(matches[2].data)
    /\ result_bytes = matches[1].data \o matches[2].data

\* C8: the segments partition the input.  In order they cover consecutive,
\* non-empty runs from offset 0, a Match of originalByteLength >= 1 bytes and a
\* Raw of exactly one byte; the cursor is the sum of the covered lengths, and
\* on return that sum is the input's length.
C8_Partition ==
    /\ Len(emitted_at) = Len(results)
    /\ \A k \in 1..Len(results) :
          /\ emitted_at[k] = SumCovered(SubSeq(results, 1, k - 1))
          /\ Covered(results[k]) >= 1
          /\ results[k].tag = "NotFound" => Len(results[k].data) = 1
    /\ SumCovered(results) = current_pos
    /\ pc \in {"decompress", "done"} =>
          /\ SumCovered(results) = Len(input_bytes)
          /\ input_bytes = <<>> => results = <<>>

C8_Witness ==
    /\ pc \in {"decompress", "done"}
    /\ Len(results) = 2
    /\ results[1].tag = "Found" /\ results[1].original_byte_len = 2
    /\ results[2].tag = "NotFound"
    /\ Len(input_bytes) = 3

\* C9: every Match segment is well formed: hexLength = 2 * originalByteLength,
\* positive; 0 <= position < N; position + hexLength <= N; and the dictionary
\* substring it names decodes to the input bytes it was emitted for.
C9_MatchWellFormed ==
    \A k \in FoundIn(results) :
        LET seg == results[k]
        IN  /\ seg.original_byte_len >= 1
            /\ seg.hex_len = 2 * seg.original_byte_len
            /\ 0 <= seg.index /\ seg.index < Len(pi)
            /\ seg.index + seg.hex_len <= Len(pi)
            /\ hex_string_to_bytes(Slice(pi, seg.index, seg.index + seg.hex_len))
                 = HexOk(InputRun(k, seg.original_byte_len))

C9_Witness ==
    \E k \in FoundIn(results) :
        /\ results[k].original_byte_len >= 2
        /\ results[k].index >= 1
        /\ emitted_at[k] >= 1

\* C10: compress terminates.  Every iteration appends one segment and moves
\* the cursor forward by at least 1 and at most the remaining length, the
\* cursor never passes the input's length, and the loop eventually exits with
\* the cursor at the input's length.
C10_Terminates ==
    /\ [][(pc = "compress" /\ current_pos < Len(input_bytes))
            => /\ Len(results') = Len(results) + 1
               /\ current_pos' >= current_pos + 1
               /\ current_pos' <= Len(input_bytes)]_vars
    /\ [](current_pos <= Len(input_bytes))
    /\ <>(pc \in {"decompress", "done"} /\ current_pos = Len(input_bytes))

C10_Witness ==
    /\ pc \in {"decompress", "done"}
    /\ current_pos = Len(input_bytes)
    /\ Len(results) >= 2
    /\ \E k \in FoundIn(results) : results[k].original_byte_len >= 2

=============================================================================
